---- MODULE Spec2Model ----
(***************************************************************************)
(* scoring_api_gateway: the verification service, its NATS client and the  *)
(* read-only verification repository, as a state machine.                  *)
(*                                                                         *)
(* Go values are written as follows.  A string is a sequence of one-byte   *)
(* characters where its length or contents matter (inn), otherwise a TLA+  *)
(* string.  A pointer is a sequence of length <= 1: <<>> is nil, <<x>>     *)
(* points to x.  An error is the chain of its messages, outermost first;   *)
(* <<>> is the nil error.                                                  *)
(***************************************************************************)
EXTENDS Integers, Sequences, FiniteSets, TLC

VARIABLES
    verifications,            \* rows of table verifications
    verification_data,        \* rows of table verification_data
    verification_data_cache,  \* rows of table verification_data_cache
    pc,                       \* where main is: "subscribe", then "serving"
    subscribed,               \* the "verification.completed" subscription is active
    delivered,                \* payloads NATS handed to the subscription callback, in order
    handled,                  \* verifications the completion handler of main was called with
    call,                     \* the service call that has returned and whose result the
                              \* client has not taken yet: arguments, results, effects
    schema,                   \* the columns and constraints the database has
    procs,                    \* the sessions that write to the database: where each is
    upserts,                  \* the data record upserts the database has executed, in order
    migration                 \* runMigrations of the running process: the files left, the
                              \* Exec calls made and their errors

vars == <<verifications, verification_data, verification_data_cache, pc, subscribed,
          delivered, handled, call, schema, procs, upserts, migration>>

writers == <<schema, procs, upserts, migration>>

tables == <<verifications, verification_data, verification_data_cache>>

---------------------------------------------------------------------------
(* Bounds of the model *)

MaxData == 3          \* data records a mock repository puts in one verification
NumWriters == 2       \* sessions that write to the database in one behaviour
MaxStarts == 2        \* starts of the gateway process in one behaviour
MaxRows == 4          \* rows of verification_data up to which legacy writers insert
MaxDelivered == 2     \* completion messages NATS delivers in one behaviour

---------------------------------------------------------------------------
(* Go values *)

Nil == <<>>
Ptr(x) == <<x>>
NoErr == <<>>
Wrap(msg, err) == <<msg>> \o err

Rep(c, n) == [i \in 1..n |-> c]

VerificationStatusInProcess == "IN_PROCESS"
VerificationStatusProcessing == "PROCESSING"
VerificationStatusCompleted == "COMPLETED"
VerificationStatusError == "ERROR"
VerificationStatusCompanyNotFound == "COMPANY_NOT_FOUND"

VerificationStatuses ==
    {VerificationStatusInProcess, VerificationStatusProcessing,
     VerificationStatusCompleted, VerificationStatusError,
     VerificationStatusCompanyNotFound}

TerminalStatuses ==
    {VerificationStatusCompleted, VerificationStatusError,
     VerificationStatusCompanyNotFound}

VerificationDataTypes ==
    {"BASIC_INFORMATION", "ACTIVITIES", "ADDRESSES_BY_CREDINFORM",
     "ADDRESSES_BY_UNIFIED_STATE_REGISTER", "AFFILIATED_COMPANIES",
     "ARBITRAGE_STATISTICS"}

\* the zero value of model.Verification
ZeroVerification ==
    [ID |-> "", Inn |-> <<>>, Status |-> "", AuthorEmail |-> "", CompanyID |-> Nil,
     RequestedDataTypes |-> <<>>, Data |-> <<>>, CreatedAt |-> "", UpdatedAt |-> ""]

\* time.Time.Format(time.RFC3339) of a stored timestamp
FormatRFC3339(t) == "2025-01-01T00:00:0" \o ToString(t) \o "Z"

\* uuid.New().String(): a random id, never the id of a stored row
UuidSamples == {"uuid-a", "uuid-b"}

---------------------------------------------------------------------------
(* The store.  The gateway only reads it; its rows are written by the     *)
(* worker service, so a behaviour starts from any of the snapshots below. *)

Inn10 == <<"7", "7", "0", "7", "0", "8", "3", "8", "9", "3">>
Inn12 == Rep("1", 12)

VerificationRow(id, inn, status, createdAt) ==
    [id |-> id, inn |-> inn, status |-> status, author_email |-> "test@example.com",
     company_id |-> Nil, requested_data_types |-> <<"BASIC_INFORMATION">>,
     created_at |-> createdAt, updated_at |-> createdAt]

\* encode(digest(text, 'sha256'), 'hex'): one digest per text, no two texts
\* share one
Sha256Hex(text) == "sha256:" \o text

\* JSONB values: an object is the sequence of its members, each a key and a
\* string
JsonAcme == << [key |-> "name", value |-> "Acme"] >>
JsonTrade == << [key |-> "okved", value |-> "62.01"] >>
JsonBoth == << [key |-> "name", value |-> "Acme"], [key |-> "okved", value |-> "62.01"] >>

\* jsonb_out, data::text and the scan of a JSONB column into a Go string
RECURSIVE JsonbMembers(_)
JsonbMembers(members) ==
    IF members = <<>> THEN ""
    ELSE "\"" \o Head(members).key \o "\": \"" \o Head(members).value \o "\""
         \o (IF Tail(members) = <<>> THEN "" ELSE ", " \o JsonbMembers(Tail(members)))

JsonbText(json) == "{" \o JsonbMembers(json) \o "}"

\* the text of a payload as its tokens: strings, punctuation and white space
StringToken(s) == [kind |-> "string", s |-> s]
PunctToken(s) == [kind |-> "punct", s |-> s]
SpaceToken == [kind |-> "space", s |-> " "]

\* the bytes of a payload
RECURSIVE TextOf(_)
TextOf(tokens) ==
    IF tokens = <<>> THEN ""
    ELSE (IF Head(tokens).kind = "string" THEN "\"" \o Head(tokens).s \o "\""
          ELSE Head(tokens).s) \o TextOf(Tail(tokens))

\* the members that follow "{" or "," in an object without white space
RECURSIVE ParseMembers(_)
ParseMembers(tokens) ==
    IF Head(tokens) = PunctToken("}") THEN <<>>
    ELSE LET rest == SubSeq(tokens, 4, Len(tokens))
         IN << [key |-> tokens[1].s, value |-> tokens[3].s] >>
            \o ParseMembers(IF Head(rest) = PunctToken(",") THEN Tail(rest) ELSE rest)

\* jsonb_in: the JSONB value of the text of an object; white space between
\* its tokens is not kept
JsonbIn(tokens) ==
    ParseMembers(Tail(SelectSeq(tokens, LAMBDA t : t.kind # "space")))

PayloadAcme == JsonbText(JsonAcme)
PayloadTrade == JsonbText(JsonTrade)

\* a row of verification_data; data is the legacy JSONB column (Nil: NULL, or the
\* column is dropped), data_hash is Nil when NULL
DataRow(id, verificationID, dataType, hash, createdAt) ==
    [id |-> id, verification_id |-> verificationID, data_type |-> dataType,
     data |-> Nil, data_hash |-> Ptr(hash), created_at |-> createdAt]

\* a row of verification_data_cache; data is a JSONB value
CacheRow(id, data) == [id |-> id, data_hash |-> Sha256Hex(JsonbText(data)), data |-> data]

\* a row of verification_data written before the cache existed: the payload is
\* in its data column, data_hash is NULL
LegacyDataRow(id, verificationID, dataType, data, createdAt) ==
    [id |-> id, verification_id |-> verificationID, data_type |-> dataType,
     data |-> Ptr(data), data_hash |-> Nil, created_at |-> createdAt]

\* the columns and constraints of verification_data that migrations add or drop
ColData == "verification_data.data"
ColDataHash == "verification_data.data_hash"
UniqueVerificationIDDataType == "verification_data_unique_verification_id_data_type"

\* the other objects of the schema that the migrations make
TblVerifications == "verifications"
TblVerificationData == "verification_data"
ColCompanyID == "verifications.company_id"
TblCache == "verification_data_cache"
FnMigrateExisting == "migrate_existing_verification_data()"

\* the schema when 004 runs its function, and the schema once every migration
\* has run
LegacySchema == {ColData, ColDataHash}
MigratedSchema == {ColDataHash, UniqueVerificationIDDataType}

\* databases of a version before the cache, as 004 finds them after its DDL
LegacySnapshots ==
    { [v |-> {VerificationRow("v1", Inn10, VerificationStatusCompleted, 1)},
       d |-> {LegacyDataRow("d1", "v1", "BASIC_INFORMATION", JsonAcme, 1),
              LegacyDataRow("d2", "v1", "ACTIVITIES", JsonAcme, 2)},
       c |-> {}],
      [v |-> {VerificationRow("v1", Inn10, VerificationStatusCompleted, 1),
              VerificationRow("v2", Inn12, VerificationStatusCompleted, 2)},
       d |-> {[LegacyDataRow("d1", "v1", "BASIC_INFORMATION", JsonAcme, 1)
                  EXCEPT !.data_hash = Ptr(Sha256Hex(PayloadAcme))],
              LegacyDataRow("d2", "v2", "BASIC_INFORMATION", JsonBoth, 2),
              LegacyDataRow("d3", "v2", "ACTIVITIES", JsonAcme, 2)},
       c |-> {CacheRow("c1", JsonAcme)}] }

StoreSnapshots ==
    { [v |-> {}, d |-> {}, c |-> {}],
      [v |-> {VerificationRow("v1", Inn10, VerificationStatusInProcess, 1)},
       d |-> {}, c |-> {}],
      [v |-> {VerificationRow("v1", Inn10, VerificationStatusCompleted, 1),
              VerificationRow("v2", Inn12, VerificationStatusInProcess, 2)},
       d |-> {DataRow("d1", "v1", "BASIC_INFORMATION", Sha256Hex(PayloadAcme), 1)},
       c |-> {CacheRow("c1", JsonAcme)}],
      [v |-> {VerificationRow("v1", Inn10, VerificationStatusError, 1),
              VerificationRow("v2", Inn12, VerificationStatusProcessing, 2),
              VerificationRow("v3", Inn10, VerificationStatusCompanyNotFound, 2)},
       d |-> {DataRow("d1", "v1", "BASIC_INFORMATION", Sha256Hex(PayloadAcme), 1),
              DataRow("d2", "v1", "ACTIVITIES", Sha256Hex(PayloadTrade), 2),
              DataRow("d3", "v3", "ACTIVITIES", Sha256Hex(PayloadAcme), 2)},
       c |-> {CacheRow("c1", JsonAcme), CacheRow("c2", JsonTrade)}] }

\* rows.Scan of one row of verifications into model.Verification
ScanVerification(row) ==
    [ZeroVerification EXCEPT
        !.ID = row.id, !.Inn = row.inn, !.Status = row.status,
        !.AuthorEmail = row.author_email, !.CompanyID = row.company_id,
        !.RequestedDataTypes = row.requested_data_types,
        !.CreatedAt = FormatRFC3339(row.created_at),
        !.UpdatedAt = FormatRFC3339(row.updated_at)]

\* SELECT ... FROM verifications ORDER BY created_at DESC: every order the
\* store may produce (rows with equal created_at come in either order)
OrderByCreatedAtDesc(rows) ==
    { s \in [1..Cardinality(rows) -> rows] :
        /\ \A i, j \in DOMAIN s : i # j => s[i] # s[j]
        /\ \A i, j \in DOMAIN s : i < j => s[i].created_at >= s[j].created_at }

\* GetAll passing limit and offset to the format string in the wrong order
LimitOffsetClause_Swapped(limit, offset) ==
    IF limit # Nil \/ offset # Nil
    THEN IF limit # Nil /\ offset # Nil THEN [limit |-> offset, offset |-> limit]
         ELSE IF limit # Nil THEN [limit |-> limit, offset |-> Nil]
         ELSE [limit |-> Nil, offset |-> offset]
    ELSE [limit |-> Nil, offset |-> Nil]

\* the LIMIT / OFFSET clauses GetAll appends to the query
LimitOffsetClause(limit, offset) ==
    IF limit # Nil \/ offset # Nil
    THEN IF limit # Nil /\ offset # Nil THEN [limit |-> limit, offset |-> offset]
         ELSE IF limit # Nil THEN [limit |-> limit, offset |-> Nil]
         ELSE [limit |-> Nil, offset |-> offset]
    ELSE [limit |-> Nil, offset |-> Nil]

\* what the store does with the clauses on an ordered result
ApplyLimitOffset(s, clause) ==
    LET o == IF clause.offset = Nil THEN 0 ELSE clause.offset[1]
        rest == SubSeq(s, o + 1, Len(s))
        n == IF clause.limit = Nil \/ clause.limit[1] > Len(rest)
             THEN Len(rest) ELSE clause.limit[1]
    IN SubSeq(rest, 1, n)

DbError == "database connection failed"

\* verificationRepository.GetAll: the (verifications, error) pairs it can return
RepoGetAll(rows, limit, offset, dbOk) ==
    LET clause == LimitOffsetClause(limit, offset)
        negative == \/ clause.limit # Nil /\ clause.limit[1] < 0
                    \/ clause.offset # Nil /\ clause.offset[1] < 0
    IN IF ~dbOk \/ negative
       THEN { [ret |-> <<>>, err |-> Wrap("failed to get all verifications", <<DbError>>)] }
       ELSE { [ret |-> [i \in DOMAIN page |-> ScanVerification(page[i])], err |-> NoErr] :
                page \in { ApplyLimitOffset(s, clause) : s \in OrderByCreatedAtDesc(rows) } }

\* the row SELECT ... FROM verifications WHERE id = $1 finds: Nil is pgx.ErrNoRows
SelectVerificationByID(rows, id) ==
    IF \E r \in rows : r.id = id
    THEN Ptr(CHOOSE r \in rows : r.id = id)
    ELSE Nil

NoRows == "no rows in result set"

\* GetDataByHash that reports no error when the query finds no row
GetDataByHash_NilOnMiss(cache, hash, dbOk) ==
    IF ~dbOk
    THEN [ret |-> "", err |-> Wrap("data not found in cache for hash " \o hash, <<DbError>>)]
    ELSE IF ~\E c \in cache : c.data_hash = hash
    THEN [ret |-> "", err |-> NoErr]
    ELSE [ret |-> JsonbText((CHOOSE c \in cache : c.data_hash = hash).data), err |-> NoErr]

\* dataCacheRepository.GetDataByHash: (data, error)
GetDataByHash(cache, hash, dbOk) ==
    IF ~dbOk
    THEN [ret |-> "", err |-> Wrap("data not found in cache for hash " \o hash, <<DbError>>)]
    ELSE IF ~\E c \in cache : c.data_hash = hash
    THEN [ret |-> "", err |-> Wrap("data not found in cache for hash " \o hash, <<NoRows>>)]
    ELSE [ret |-> JsonbText((CHOOSE c \in cache : c.data_hash = hash).data), err |-> NoErr]

\* ORDER BY created_at DESC
OrderByCreatedAt_Desc(rows) ==
    { s \in [1..Cardinality(rows) -> rows] :
        /\ \A i, j \in DOMAIN s : i # j => s[i] # s[j]
        /\ \A i, j \in DOMAIN s : i < j => s[i].created_at >= s[j].created_at }

\* the data rows of a verification in every order ORDER BY created_at allows
OrderByCreatedAt(rows) ==
    { s \in [1..Cardinality(rows) -> rows] :
        /\ \A i, j \in DOMAIN s : i # j => s[i] # s[j]
        /\ \A i, j \in DOMAIN s : i < j => s[i].created_at <= s[j].created_at }

\* the data list of a verification: every data row, in order, with the payload
\* its hash resolves to in the cache; a row that does not resolve is skipped
\* (lost: the rows whose lookup the database fails)
RECURSIVE ResolveData(_, _, _)
ResolveData(ordered, cache, lost) ==
    IF ordered = <<>> THEN <<>>
    ELSE LET row == Head(ordered)
             got == IF row.data_hash = Nil
                    THEN [ret |-> "", err |-> <<NoRows>>]
                    ELSE GetDataByHash(cache, row.data_hash[1], row.id \notin lost)
         IN (IF got.err # NoErr THEN <<>>
             ELSE << [DataType |-> row.data_type, Data |-> got.ret,
                      CreatedAt |-> FormatRFC3339(row.created_at)] >>)
            \o ResolveData(Tail(ordered), cache, lost)

\* verificationRepository.GetByID: the (verification, error) pairs it can return
RepoGetByID(rows, dataRows, cache, id, dbOk, lost) ==
    LET found == SelectVerificationByID(rows, id)
        mine == { d \in dataRows : d.verification_id = id }
    IN IF ~dbOk
       THEN { [ret |-> Nil, err |-> Wrap("failed to get verification", <<DbError>>)] }
       ELSE IF found = Nil
       THEN { [ret |-> Nil, err |-> NoErr] }
       ELSE { [ret |-> Ptr([ScanVerification(found[1]) EXCEPT
                               !.Data = ResolveData(ordered, cache, lost)]),
               err |-> NoErr] : ordered \in OrderByCreatedAt(mine) }

---------------------------------------------------------------------------
(* migrations: the statements that write verification_data_cache and         *)
(* verification_data                                                         *)

\* gen_random_uuid(): an id no row of the table has
NewID(prefix, rows) ==
    LET free == { n \in 1..(Cardinality(rows) + 1) :
                    ~\E r \in rows : r.id = prefix \o ToString(n) }
    IN prefix \o ToString(CHOOSE n \in free : \A m \in free : n <= m)

\* computed_hash := encode(digest(rec.data::text, 'sha256'), 'hex')
ComputedHash(data) == Sha256Hex(JsonbText(data))

UniqueViolation == "duplicate key value violates unique constraint"

\* the INSERT into a table without UNIQUE on data_hash
InsertCache_NoUnique(cache, hash, data) ==
    [cache |-> cache \cup {[id |-> NewID("c", cache), data_hash |-> hash, data |-> data]},
     err |-> NoErr]

\* the INSERT without ON CONFLICT (data_hash) DO NOTHING
InsertCache_NoOnConflict(cache, hash, data) ==
    IF \E c \in cache : c.data_hash = hash
    THEN [cache |-> cache, err |-> <<UniqueViolation>>]
    ELSE [cache |-> cache \cup {[id |-> NewID("c", cache), data_hash |-> hash,
                                 data |-> data]},
          err |-> NoErr]

\* INSERT INTO verification_data_cache (data_hash, data) VALUES (hash, data)
\* ON CONFLICT (data_hash) DO NOTHING, data_hash being UNIQUE
InsertCache(cache, hash, data) ==
    IF \E c \in cache : c.data_hash = hash
    THEN [cache |-> cache, err |-> NoErr]
    ELSE [cache |-> cache \cup {[id |-> NewID("c", cache), data_hash |-> hash,
                                 data |-> data]},
          err |-> NoErr]

\* the rows the SELECT of migrate_existing_verification_data loops over
SelectWithoutHash(dataRows) ==
    { [id |-> d.id, data |-> d.data[1]] :
        d \in { x \in dataRows : x.data_hash = Nil /\ x.data # Nil } }

\* UPDATE verification_data SET data_hash = hash WHERE id = id
UpdateDataHash(dataRows, id, hash) ==
    { IF d.id = id THEN [d EXCEPT !.data_hash = Ptr(hash)] ELSE d : d \in dataRows }

\* no constraint: no row is in conflict with a new one
ConflictingDataRows_None(dataRows, verificationID, dataType) == {}

\* a constraint on verification_id alone
ConflictingDataRows_AnyType(dataRows, verificationID, dataType) ==
    { d \in dataRows : d.verification_id = verificationID }

\* the rows that verification_data_unique_verification_id_data_type puts in
\* conflict with a new row
ConflictingDataRows(dataRows, verificationID, dataType) ==
    { d \in dataRows : d.verification_id = verificationID /\ d.data_type = dataType }

ForeignKeyViolation == "insert or update on table violates foreign key constraint"

\* INSERT INTO verification_data (verification_id, data_type, data_hash) VALUES
\* (...) ON CONFLICT (verification_id, data_type) DO UPDATE SET data_hash =
\* EXCLUDED.data_hash
UpsertDataRow(rows, dataRows, verificationID, dataType, hash, now) ==
    LET conflicting == ConflictingDataRows(dataRows, verificationID, dataType)
    IN IF ~\E v \in rows : v.id = verificationID
       THEN [rows |-> dataRows, err |-> <<ForeignKeyViolation>>]
       ELSE IF conflicting = {}
       THEN [rows |-> dataRows \cup
                        {DataRow(NewID("d", dataRows), verificationID, dataType, hash, now)},
             err |-> NoErr]
       ELSE [rows |-> { IF d \in conflicting THEN [d EXCEPT !.data_hash = Ptr(hash)] ELSE d :
                          d \in dataRows },
             err |-> NoErr]

---------------------------------------------------------------------------
(* internal/messaging: the NATS client *)

\* json.Marshal of a CreateVerificationMessage: the object with its json tags
MarshalCreateVerificationMessage(msg) ==
    [verification_id |-> msg.VerificationID, inn |-> msg.INN,
     requested_types |-> msg.RequestedTypes, author_email |-> msg.AuthorEmail]

ConnError == "nats connection failed"

\* PublishVerificationRequest publishing on the subject of the other direction
PublishVerificationRequest_WrongSubject(verification, connOk) ==
    LET msg == [VerificationID |-> verification.ID, INN |-> verification.Inn,
                RequestedTypes |-> verification.RequestedDataTypes,
                AuthorEmail |-> verification.AuthorEmail]
        data == MarshalCreateVerificationMessage(msg)
        published == <<[subject |-> "verification.completed", data |-> data, ok |-> connOk]>>
    IN IF ~connOk
       THEN [err |-> Wrap("failed to publish verification request", <<ConnError>>),
             published |-> published]
       ELSE [err |-> NoErr, published |-> published]

\* natsClient.PublishVerificationRequest: the error it returns and the calls of
\* conn.Publish it makes (connOk: conn.Publish returns nil)
PublishVerificationRequest(verification, connOk) ==
    LET msg == [VerificationID |-> verification.ID, INN |-> verification.Inn,
                RequestedTypes |-> verification.RequestedDataTypes,
                AuthorEmail |-> verification.AuthorEmail]
        data == MarshalCreateVerificationMessage(msg)
        published == <<[subject |-> "verification.create", data |-> data, ok |-> connOk]>>
    IN IF ~connOk
       THEN [err |-> Wrap("failed to publish verification request", <<ConnError>>),
             published |-> published]
       ELSE [err |-> NoErr, published |-> published]

\* A message payload as json.Unmarshal sees it.  kind: "invalid" is not JSON,
\* "scalar" a JSON value that is neither an object nor null, "null", "object".
\* A member of an object is absent, null, a string or a number.
JAbsent == [t |-> "absent", s |-> ""]
JNull == [t |-> "null", s |-> ""]
JString(s) == [t |-> "string", s |-> s]
JNumber(s) == [t |-> "number", s |-> s]

Payload(kind, id, status) ==
    [kind |-> kind, verification_id |-> id, status |-> status, error |-> JAbsent]

CompletedPayloads ==
    { Payload("invalid", JAbsent, JAbsent),
      Payload("null", JAbsent, JAbsent),
      Payload("object", JString("v1"), JString("COMPLETED")),
      Payload("object", JString("v1"), JString("IN_PROCESS")),
      Payload("object", JString("v9"), JString("COMPLETED")),
      Payload("object", JString("v1"), JNumber("5")),
      Payload("object", JNumber("7"), JString("COMPLETED")),
      Payload("object", JAbsent, JString("BOGUS")) }

\* decoding one member into a Go string field
UnmarshalString(j) ==
    IF j.t = "string" THEN [ok |-> TRUE, val |-> j.s]
    ELSE IF j.t \in {"absent", "null"} THEN [ok |-> TRUE, val |-> ""]
    ELSE [ok |-> FALSE, val |-> ""]

\* json.Unmarshal(msg.Data, &completedMsg)
UnmarshalCompletedMessage(raw) ==
    LET zero == [VerificationID |-> "", Status |-> "", Error |-> ""]
        id == UnmarshalString(raw.verification_id)
        st == UnmarshalString(raw.status)
        er == UnmarshalString(raw.error)
    IN IF raw.kind \in {"invalid", "scalar"} THEN [ok |-> FALSE, msg |-> zero]
       ELSE IF raw.kind = "null" THEN [ok |-> TRUE, msg |-> zero]
       ELSE [ok |-> id.ok /\ st.ok /\ er.ok,
             msg |-> [VerificationID |-> id.val, Status |-> st.val, Error |-> er.val]]

\* the callback without the return after a failed json.Unmarshal
CompletedCallback_NoReturn(raw) ==
    LET dec == UnmarshalCompletedMessage(raw)
    IN << [ZeroVerification EXCEPT !.ID = dec.msg.VerificationID,
                                   !.Status = dec.msg.Status] >>

\* the callback leaving Status out of the verification it builds
CompletedCallback_NoStatus(raw) ==
    LET dec == UnmarshalCompletedMessage(raw)
    IN IF ~dec.ok THEN <<>>
       ELSE << [ZeroVerification EXCEPT !.ID = dec.msg.VerificationID] >>

\* a callback that calls the handler only for a status of the schema
CompletedCallback_KnownStatusOnly(raw) ==
    LET dec == UnmarshalCompletedMessage(raw)
    IN IF ~dec.ok \/ dec.msg.Status \notin VerificationStatuses THEN <<>>
       ELSE << [ZeroVerification EXCEPT !.ID = dec.msg.VerificationID,
                                        !.Status = dec.msg.Status] >>

\* the callback SubscribeToVerificationCompleted registers: the verifications it
\* calls the handler with, in order
CompletedCallback(raw) ==
    LET dec == UnmarshalCompletedMessage(raw)
    IN IF ~dec.ok THEN <<>>
       ELSE << [ZeroVerification EXCEPT !.ID = dec.msg.VerificationID,
                                        !.Status = dec.msg.Status] >>

---------------------------------------------------------------------------
(* main *)

\* a handler that stores the notified status, inserting a row for an unknown id
CompletedHandler_Upsert(rows, verification) ==
    IF \E r \in rows : r.id = verification.ID
    THEN { IF r.id = verification.ID THEN [r EXCEPT !.status = verification.Status] ELSE r :
             r \in rows }
    ELSE rows \cup {VerificationRow(verification.ID, <<>>, verification.Status, 0)}

\* a handler that writes the notified status to the matching row
CompletedHandler_Update(rows, verification) ==
    { IF r.id = verification.ID THEN [r EXCEPT !.status = verification.Status] ELSE r :
        r \in rows }

\* the handler main registers: it logs the notification; the rows of the
\* store after it ran
CompletedHandler(rows, verification) == rows

---------------------------------------------------------------------------
(* internal/service: the verification service *)

\* CreateVerification checking the length of inn before the requested types
ServiceCreateVerification_LengthFirst(inn, requestedTypes, authorEmail, id, connOk) ==
    LET none == [ret |-> Nil, published |-> <<>>, uuid |-> Nil, err |-> NoErr]
        verification ==
            [ZeroVerification EXCEPT
                !.ID = id, !.Inn = inn, !.Status = VerificationStatusInProcess,
                !.AuthorEmail = authorEmail, !.RequestedDataTypes = requestedTypes]
        pub == PublishVerificationRequest(verification, connOk)
    IN IF inn = <<>>
       THEN [none EXCEPT !.err = <<"inn cannot be empty">>]
       ELSE IF Len(inn) # 10 /\ Len(inn) # 12
       THEN [none EXCEPT
                !.err = <<"inn must be 10 or 12 digits, got " \o ToString(Len(inn))>>]
       ELSE IF Len(requestedTypes) = 0
       THEN [none EXCEPT !.err = <<"at least one data type must be requested">>]
       ELSE IF pub.err # NoErr
       THEN [ret |-> Nil, published |-> pub.published, uuid |-> Ptr(id),
             err |-> Wrap("failed to publish verification request", pub.err)]
       ELSE [ret |-> Ptr(verification), published |-> pub.published, uuid |-> Ptr(id),
             err |-> NoErr]

\* CreateVerification without the check of the requested types
ServiceCreateVerification_NoTypesCheck(inn, requestedTypes, authorEmail, id, connOk) ==
    LET none == [ret |-> Nil, published |-> <<>>, uuid |-> Nil, err |-> NoErr]
        verification ==
            [ZeroVerification EXCEPT
                !.ID = id, !.Inn = inn, !.Status = VerificationStatusInProcess,
                !.AuthorEmail = authorEmail, !.RequestedDataTypes = requestedTypes]
        pub == PublishVerificationRequest(verification, connOk)
    IN IF inn = <<>>
       THEN [none EXCEPT !.err = <<"inn cannot be empty">>]
       ELSE IF Len(inn) # 10 /\ Len(inn) # 12
       THEN [none EXCEPT
                !.err = <<"inn must be 10 or 12 digits, got " \o ToString(Len(inn))>>]
       ELSE IF pub.err # NoErr
       THEN [ret |-> Nil, published |-> pub.published, uuid |-> Ptr(id),
             err |-> Wrap("failed to publish verification request", pub.err)]
       ELSE [ret |-> Ptr(verification), published |-> pub.published, uuid |-> Ptr(id),
             err |-> NoErr]

\* CreateVerification creating the verification with status PROCESSING
ServiceCreateVerification_WrongStatus(inn, requestedTypes, authorEmail, id, connOk) ==
    LET none == [ret |-> Nil, published |-> <<>>, uuid |-> Nil, err |-> NoErr]
        verification ==
            [ZeroVerification EXCEPT
                !.ID = id, !.Inn = inn, !.Status = VerificationStatusProcessing,
                !.AuthorEmail = authorEmail, !.RequestedDataTypes = requestedTypes]
        pub == PublishVerificationRequest(verification, connOk)
    IN IF inn = <<>>
       THEN [none EXCEPT !.err = <<"inn cannot be empty">>]
       ELSE IF Len(requestedTypes) = 0
       THEN [none EXCEPT !.err = <<"at least one data type must be requested">>]
       ELSE IF Len(inn) # 10 /\ Len(inn) # 12
       THEN [none EXCEPT
                !.err = <<"inn must be 10 or 12 digits, got " \o ToString(Len(inn))>>]
       ELSE IF pub.err # NoErr
       THEN [ret |-> Nil, published |-> pub.published, uuid |-> Ptr(id),
             err |-> Wrap("failed to publish verification request", pub.err)]
       ELSE [ret |-> Ptr(verification), published |-> pub.published, uuid |-> Ptr(id),
             err |-> NoErr]

\* verificationService.CreateVerification; id is what uuid.New returns
ServiceCreateVerification(inn, requestedTypes, authorEmail, id, connOk) ==
    LET none == [ret |-> Nil, published |-> <<>>, uuid |-> Nil, err |-> NoErr]
        verification ==
            [ZeroVerification EXCEPT
                !.ID = id, !.Inn = inn, !.Status = VerificationStatusInProcess,
                !.AuthorEmail = authorEmail, !.RequestedDataTypes = requestedTypes]
        pub == PublishVerificationRequest(verification, connOk)
    IN IF inn = <<>>
       THEN [none EXCEPT !.err = <<"inn cannot be empty">>]
       ELSE IF Len(requestedTypes) = 0
       THEN [none EXCEPT !.err = <<"at least one data type must be requested">>]
       ELSE IF Len(inn) # 10 /\ Len(inn) # 12
       THEN [none EXCEPT
                !.err = <<"inn must be 10 or 12 digits, got " \o ToString(Len(inn))>>]
       ELSE IF pub.err # NoErr
       THEN [ret |-> Nil, published |-> pub.published, uuid |-> Ptr(id),
             err |-> Wrap("failed to publish verification request", pub.err)]
       ELSE [ret |-> Ptr(verification), published |-> pub.published, uuid |-> Ptr(id),
             err |-> NoErr]

\* GetAllVerifications without the check of offset
ServiceGetAllVerifications_NoOffsetCheck(rows, limit, offset, dbOk) ==
    IF limit # Nil /\ limit[1] < 0
    THEN { [ret |-> <<>>, queries |-> <<>>,
            err |-> <<"limit must be non-negative, got " \o ToString(limit[1])>>] }
    ELSE { [ret |-> r.ret, err |-> r.err,
            queries |-> <<[method |-> "GetAll", limit |-> limit, offset |-> offset]>>] :
             r \in RepoGetAll(rows, limit, offset, dbOk) }

\* verificationService.GetAllVerifications: the outcomes it can have
ServiceGetAllVerifications(rows, limit, offset, dbOk) ==
    IF limit # Nil /\ limit[1] < 0
    THEN { [ret |-> <<>>, queries |-> <<>>,
            err |-> <<"limit must be non-negative, got " \o ToString(limit[1])>>] }
    ELSE IF offset # Nil /\ offset[1] < 0
    THEN { [ret |-> <<>>, queries |-> <<>>,
            err |-> <<"offset must be non-negative, got " \o ToString(offset[1])>>] }
    ELSE { [ret |-> r.ret, err |-> r.err,
            queries |-> <<[method |-> "GetAll", limit |-> limit, offset |-> offset]>>] :
             r \in RepoGetAll(rows, limit, offset, dbOk) }

\* GetVerification without the check of the id
ServiceGetVerification_NoIDCheck(rows, dataRows, cache, id, dbOk, lost) ==
    { IF r.err # NoErr
      THEN [ret |-> Nil, err |-> Wrap("failed to get verification", r.err),
            queries |-> <<[method |-> "GetByID", id |-> id]>>]
      ELSE IF r.ret = Nil
      THEN [ret |-> Nil, err |-> <<"verification not found: " \o id>>,
            queries |-> <<[method |-> "GetByID", id |-> id]>>]
      ELSE [ret |-> r.ret, err |-> NoErr,
            queries |-> <<[method |-> "GetByID", id |-> id]>>] :
        r \in RepoGetByID(rows, dataRows, cache, id, dbOk, lost) }

\* verificationService.GetVerification: the outcomes it can have
ServiceGetVerification(rows, dataRows, cache, id, dbOk, lost) ==
    IF id = ""
    THEN { [ret |-> Nil, err |-> <<"verification id cannot be empty">>, queries |-> <<>>] }
    ELSE { IF r.err # NoErr
           THEN [ret |-> Nil, err |-> Wrap("failed to get verification", r.err),
                 queries |-> <<[method |-> "GetByID", id |-> id]>>]
           ELSE IF r.ret = Nil
           THEN [ret |-> Nil, err |-> <<"verification not found: " \o id>>,
                 queries |-> <<[method |-> "GetByID", id |-> id]>>]
           ELSE [ret |-> r.ret, err |-> NoErr,
                 queries |-> <<[method |-> "GetByID", id |-> id]>>] :
             r \in RepoGetByID(rows, dataRows, cache, id, dbOk, lost) }

\* model.VerificationDataResult with no field set
ZeroVerificationDataResult ==
    [Verification |-> Nil, BasicInformation |-> Nil, Activities |-> Nil,
     AddressesByCredinform |-> Nil, AddressesByUnifiedStateRegister |-> Nil,
     AffiliatedCompanies |-> Nil, ArbitrageStatistics |-> Nil]

\* a switch that sets a field only while it is unset
SetByDataType_KeepFirst(result, data) ==
    IF data.DataType = "BASIC_INFORMATION"
    THEN [result EXCEPT !.BasicInformation = IF @ = Nil THEN Ptr(data.Data) ELSE @]
    ELSE IF data.DataType = "ACTIVITIES"
    THEN [result EXCEPT !.Activities = IF @ = Nil THEN Ptr(data.Data) ELSE @]
    ELSE IF data.DataType = "ADDRESSES_BY_CREDINFORM"
    THEN [result EXCEPT !.AddressesByCredinform = IF @ = Nil THEN Ptr(data.Data) ELSE @]
    ELSE IF data.DataType = "ADDRESSES_BY_UNIFIED_STATE_REGISTER"
    THEN [result EXCEPT
             !.AddressesByUnifiedStateRegister = IF @ = Nil THEN Ptr(data.Data) ELSE @]
    ELSE IF data.DataType = "AFFILIATED_COMPANIES"
    THEN [result EXCEPT !.AffiliatedCompanies = IF @ = Nil THEN Ptr(data.Data) ELSE @]
    ELSE IF data.DataType = "ARBITRAGE_STATISTICS"
    THEN [result EXCEPT !.ArbitrageStatistics = IF @ = Nil THEN Ptr(data.Data) ELSE @]
    ELSE result

\* the switch without the case of ACTIVITIES
SetByDataType_NoActivities(result, data) ==
    IF data.DataType = "BASIC_INFORMATION"
    THEN [result EXCEPT !.BasicInformation = Ptr(data.Data)]
    ELSE IF data.DataType = "ADDRESSES_BY_CREDINFORM"
    THEN [result EXCEPT !.AddressesByCredinform = Ptr(data.Data)]
    ELSE IF data.DataType = "ADDRESSES_BY_UNIFIED_STATE_REGISTER"
    THEN [result EXCEPT !.AddressesByUnifiedStateRegister = Ptr(data.Data)]
    ELSE IF data.DataType = "AFFILIATED_COMPANIES"
    THEN [result EXCEPT !.AffiliatedCompanies = Ptr(data.Data)]
    ELSE IF data.DataType = "ARBITRAGE_STATISTICS"
    THEN [result EXCEPT !.ArbitrageStatistics = Ptr(data.Data)]
    ELSE result

\* the switch over data.DataType in GetVerificationWithData
SetByDataType(result, data) ==
    IF data.DataType = "BASIC_INFORMATION"
    THEN [result EXCEPT !.BasicInformation = Ptr(data.Data)]
    ELSE IF data.DataType = "ACTIVITIES"
    THEN [result EXCEPT !.Activities = Ptr(data.Data)]
    ELSE IF data.DataType = "ADDRESSES_BY_CREDINFORM"
    THEN [result EXCEPT !.AddressesByCredinform = Ptr(data.Data)]
    ELSE IF data.DataType = "ADDRESSES_BY_UNIFIED_STATE_REGISTER"
    THEN [result EXCEPT !.AddressesByUnifiedStateRegister = Ptr(data.Data)]
    ELSE IF data.DataType = "AFFILIATED_COMPANIES"
    THEN [result EXCEPT !.AffiliatedCompanies = Ptr(data.Data)]
    ELSE IF data.DataType = "ARBITRAGE_STATISTICS"
    THEN [result EXCEPT !.ArbitrageStatistics = Ptr(data.Data)]
    ELSE result

\* for _, data := range verification.Data
RECURSIVE MapDataByType(_, _)
MapDataByType(result, data) ==
    IF data = <<>> THEN result
    ELSE MapDataByType(SetByDataType(result, Head(data)), Tail(data))

\* verificationService.GetVerificationWithData: the outcomes it can have
ServiceGetVerificationWithData(rows, dataRows, cache, id, dbOk, lost) ==
    IF id = ""
    THEN { [ret |-> Nil, err |-> <<"verification id cannot be empty">>, queries |-> <<>>] }
    ELSE { IF r.err # NoErr
           THEN [ret |-> Nil, err |-> Wrap("failed to get verification", r.err),
                 queries |-> <<[method |-> "GetByID", id |-> id]>>]
           ELSE IF r.ret = Nil
           THEN [ret |-> Nil, err |-> <<"verification not found: " \o id>>,
                 queries |-> <<[method |-> "GetByID", id |-> id]>>]
           ELSE [ret |-> Ptr(MapDataByType(
                                [ZeroVerificationDataResult EXCEPT !.Verification = r.ret],
                                r.ret[1].Data)),
                 err |-> NoErr,
                 queries |-> <<[method |-> "GetByID", id |-> id]>>] :
             r \in RepoGetByID(rows, dataRows, cache, id, dbOk, lost) }

---------------------------------------------------------------------------
(* The inputs the actions draw from *)

InnSamples == {<<>>, Rep("1", 3), Inn10, Rep("1", 11), Inn12, Rep("1", 14), Rep("a", 10)}

RequestedTypesSamples ==
    {<<>>, <<"BASIC_INFORMATION">>, <<"ACTIVITIES", "BASIC_INFORMATION">>}

AuthorSamples == {"test@example.com", ""}

Int32PtrSamples == {Nil, Ptr(-1), Ptr(0), Ptr(1), Ptr(2)}

\* the sessions that write
Procs == 1..NumWriters
IdleProc ==
    [pc |-> "idle", todo |-> {}, rec |-> Nil, hash |-> "", args |-> Nil,
     stored |-> <<>>, err |-> NoErr]
UpsertIDSamples == {"v1", "v9"}
\* the verifications a session deletes
DeleteIDSamples == {"v1"}
UpsertTypeSamples == {"BASIC_INFORMATION", "ACTIVITIES"}
\* {"name":"Acme"}, {"name": "Acme"} and {"okved": "62.01"}
UpsertDataSamples ==
    { << PunctToken("{"), StringToken("name"), PunctToken(":"), StringToken("Acme"),
         PunctToken("}") >>,
      << PunctToken("{"), StringToken("name"), PunctToken(":"), SpaceToken,
         StringToken("Acme"), PunctToken("}") >>,
      << PunctToken("{"), StringToken("okved"), PunctToken(":"), SpaceToken,
         StringToken("62.01"), PunctToken("}") >> }

\* runMigrations has returned nil before the behaviour starts
NoMigration ==
    [start |-> 0, todo |-> <<>>, log |-> <<>>, step |-> "exec", saved |-> Nil,
     atStart |-> Nil]

\* the data rows whose cache lookup fails during a call
LostSamples == {{}, {"d1"}}
IDSamples == {"", "v1", "v3", "v9"}
HashSamples == {Sha256Hex(PayloadAcme), Sha256Hex(PayloadTrade)}
NoCall == [op |-> "none"]

---------------------------------------------------------------------------
(* State machine *)

Init ==
    /\ \E s \in StoreSnapshots :
          /\ verifications = s.v
          /\ verification_data = s.d
          /\ verification_data_cache = s.c
    /\ pc = "subscribe"
    /\ subscribed = FALSE
    /\ delivered = <<>>
    /\ handled = <<>>
    /\ call = NoCall
    /\ schema = MigratedSchema
    /\ procs = [p \in Procs |-> IdleProc]
    /\ upserts = <<>>
    /\ migration = NoMigration

\* main: natsClient.SubscribeToVerificationCompleted; when conn.Subscribe fails
\* the error is logged and main goes on without a subscription
Subscribe(subscribeOk) ==
    /\ pc = "subscribe"
    /\ pc' = "serving"
    /\ subscribed' = subscribeOk
    /\ UNCHANGED <<writers, tables, delivered, handled, call>>

RECURSIVE RunHandler(_, _)
RunHandler(rows, vs) ==
    IF vs = <<>> THEN rows
    ELSE RunHandler(CompletedHandler(rows, Head(vs)), Tail(vs))

\* NATS delivers one message on "verification.completed": the callback runs
DeliverCompleted(raw) ==
    /\ subscribed
    /\ Len(delivered) < MaxDelivered
    /\ delivered' = Append(delivered, raw)
    /\ handled' = handled \o CompletedCallback(raw)
    /\ verifications' = RunHandler(verifications, CompletedCallback(raw))
    /\ UNCHANGED <<writers, verification_data, verification_data_cache, pc, subscribed, call>>

\* CreateVerification storing the verification it returns
CreateVerification_Persist(inn, requestedTypes, authorEmail, id, connOk) ==
    /\ pc = "serving"
    /\ call = NoCall
    /\ LET out == ServiceCreateVerification(inn, requestedTypes, authorEmail, id, connOk)
       IN /\ call' = [op |-> "CreateVerification",
                      args |-> [inn |-> inn, requestedTypes |-> requestedTypes,
                                authorEmail |-> authorEmail],
                      ret |-> out.ret, err |-> out.err, uuid |-> out.uuid,
                      published |-> out.published, queries |-> <<>>]
          /\ verifications' =
                IF out.err # NoErr THEN verifications
                ELSE verifications \cup
                       {VerificationRow(id, inn, VerificationStatusInProcess, 3)}
    /\ UNCHANGED <<writers, verification_data, verification_data_cache, pc, subscribed,
                   delivered, handled>>

\* CreateVerification storing the new verification before it publishes
CreateVerification_PersistFirst(inn, requestedTypes, authorEmail, id, connOk) ==
    /\ pc = "serving"
    /\ call = NoCall
    /\ LET out == ServiceCreateVerification(inn, requestedTypes, authorEmail, id, connOk)
       IN /\ call' = [op |-> "CreateVerification",
                      args |-> [inn |-> inn, requestedTypes |-> requestedTypes,
                                authorEmail |-> authorEmail],
                      ret |-> out.ret, err |-> out.err, uuid |-> out.uuid,
                      published |-> out.published, queries |-> <<>>]
          /\ verifications' =
                IF out.uuid = Nil THEN verifications
                ELSE verifications \cup
                       {VerificationRow(id, inn, VerificationStatusInProcess, 3)}
    /\ UNCHANGED <<writers, verification_data, verification_data_cache, pc, subscribed,
                   delivered, handled>>

\* a CreateVerification call of the GraphQL layer
CreateVerification(inn, requestedTypes, authorEmail, id, connOk) ==
    /\ pc = "serving"
    /\ call = NoCall
    /\ LET out == ServiceCreateVerification(inn, requestedTypes, authorEmail, id, connOk)
       IN call' = [op |-> "CreateVerification",
                   args |-> [inn |-> inn, requestedTypes |-> requestedTypes,
                             authorEmail |-> authorEmail],
                   ret |-> out.ret, err |-> out.err, uuid |-> out.uuid,
                   published |-> out.published, queries |-> <<>>]
    /\ UNCHANGED <<writers, tables, pc, subscribed, delivered, handled>>

\* a GetAllVerifications call of the GraphQL layer
GetAllVerifications(limit, offset, dbOk) ==
    /\ pc = "serving"
    /\ call = NoCall
    /\ \E out \in ServiceGetAllVerifications(verifications, limit, offset, dbOk) :
          call' = [op |-> "GetAllVerifications",
                   args |-> [limit |-> limit, offset |-> offset],
                   ret |-> out.ret, err |-> out.err, uuid |-> Nil,
                   published |-> <<>>, queries |-> out.queries]
    /\ UNCHANGED <<writers, tables, pc, subscribed, delivered, handled>>

GetVerification(id, dbOk, lost) ==
    /\ pc = "serving"
    /\ call = NoCall
    /\ \E out \in ServiceGetVerification(verifications, verification_data,
                                          verification_data_cache, id, dbOk, lost) :
          call' = [op |-> "GetVerification", args |-> [id |-> id], store |-> dbOk,
                   lost |-> lost,
                   ret |-> out.ret, err |-> out.err, queries |-> out.queries]
    /\ UNCHANGED <<writers, tables, pc, subscribed, delivered, handled>>

GetVerificationWithData(id, dbOk, lost) ==
    /\ pc = "serving"
    /\ call = NoCall
    /\ \E out \in ServiceGetVerificationWithData(verifications, verification_data,
                                                  verification_data_cache, id, dbOk, lost) :
          call' = [op |-> "GetVerificationWithData", args |-> [id |-> id], store |-> dbOk,
                   lost |-> lost,
                   ret |-> out.ret, err |-> out.err, queries |-> out.queries]
    /\ UNCHANGED <<writers, tables, pc, subscribed, delivered, handled>>

\* the verification repository reads a payload of the cache
ReadCache(hash, dbOk) ==
    /\ pc = "serving"
    /\ call = NoCall
    /\ LET out == GetDataByHash(verification_data_cache, hash, dbOk)
       IN call' = [op |-> "GetDataByHash", args |-> [hash |-> hash], store |-> dbOk,
                   ret |-> out.ret, err |-> out.err]
    /\ UNCHANGED <<writers, tables, pc, subscribed, delivered, handled>>

\* the GraphQL layer hands the result of the call to its client
Return ==
    /\ call # NoCall
    /\ call' = NoCall
    /\ UNCHANGED <<writers, tables, pc, subscribed, delivered, handled>>

Next ==
    \/ \E ok \in BOOLEAN : Subscribe(ok)
    \/ \E raw \in CompletedPayloads : DeliverCompleted(raw)
    \/ \E inn \in InnSamples, types \in RequestedTypesSamples, author \in AuthorSamples,
          id \in UuidSamples, connOk \in BOOLEAN :
          CreateVerification(inn, types, author, id, connOk)
    \/ \E limit \in Int32PtrSamples, offset \in Int32PtrSamples, dbOk \in BOOLEAN :
          GetAllVerifications(limit, offset, dbOk)
    \/ \E id \in IDSamples, dbOk \in BOOLEAN, lost \in LostSamples :
          GetVerification(id, dbOk, lost)
    \/ \E id \in IDSamples, dbOk \in BOOLEAN, lost \in LostSamples :
          GetVerificationWithData(id, dbOk, lost)
    \/ \E hash \in HashSamples, dbOk \in BOOLEAN : ReadCache(hash, dbOk)
    \/ Return

Spec == Init /\ [][Next]_vars

---------------------------------------------------------------------------
(* The sessions that write to the database: runs of                         *)
(* migrate_existing_verification_data, one per starting gateway, and the    *)
(* upserts of the scoring service.  Statements take effect one at a time,   *)
(* in the order the database executes them.                                 *)

gateway == <<pc, subscribed, delivered, handled, call, migration>>

InitStore ==
    /\ \/ \E s \in LegacySnapshots :
             /\ verifications = s.v
             /\ verification_data = s.d
             /\ verification_data_cache = s.c
             /\ schema = LegacySchema
       \/ \E s \in StoreSnapshots :
             /\ verifications = s.v
             /\ verification_data = s.d
             /\ verification_data_cache = s.c
             /\ schema = MigratedSchema
    /\ pc = "serving"
    /\ subscribed \in BOOLEAN
    /\ delivered = <<>>
    /\ handled = <<>>
    /\ call = NoCall
    /\ procs = [p \in Procs |-> IdleProc]
    /\ upserts = <<>>
    /\ migration = NoMigration

\* FOR rec IN SELECT id, data FROM verification_data WHERE data_hash IS NULL AND
\* data IS NOT NULL
MigrateExistingSelect(p) ==
    /\ procs[p].pc = "idle"
    /\ ColData \in schema /\ ColDataHash \in schema
    /\ procs' = [procs EXCEPT ![p].pc = "loop",
                              ![p].todo = SelectWithoutHash(verification_data)]
    /\ UNCHANGED <<tables, gateway, schema, upserts>>

\* the loop body that leaves the INSERT out
MigrateExistingInsert_Skip(p) ==
    /\ procs[p].pc = "loop"
    /\ \E rec \in procs[p].todo :
          procs' = [procs EXCEPT ![p].pc = "update", ![p].rec = Ptr(rec),
                                 ![p].hash = ComputedHash(rec.data),
                                 ![p].todo = @ \ {rec},
                                 ![p].stored = Append(@, [hash |-> ComputedHash(rec.data),
                                                          data |-> rec.data,
                                                          text |-> JsonbText(rec.data)])]
    /\ UNCHANGED <<tables, gateway, schema, upserts>>

\* the loop body up to the INSERT: the next row (in the order the SELECT yields
\* them, which no ORDER BY fixes), its hash, the INSERT into the cache
MigrateExistingInsert(p) ==
    /\ procs[p].pc = "loop"
    /\ \E rec \in procs[p].todo :
          LET computed_hash == ComputedHash(rec.data)
              out == InsertCache(verification_data_cache, computed_hash, rec.data)
          IN IF out.err # NoErr
             THEN /\ procs' = [procs EXCEPT ![p].pc = "failed", ![p].err = out.err]
                  /\ UNCHANGED verification_data_cache
             ELSE /\ verification_data_cache' = out.cache
                  /\ procs' = [procs EXCEPT ![p].pc = "update", ![p].rec = Ptr(rec),
                                            ![p].hash = computed_hash,
                                            ![p].todo = @ \ {rec},
                                            ![p].stored = Append(@, [hash |-> computed_hash,
                                                                     data |-> rec.data,
                                                                     text |-> JsonbText(rec.data)])]
    /\ UNCHANGED <<verifications, verification_data, gateway, schema, upserts>>

\* the loop body from the UPDATE on
MigrateExistingUpdate(p) ==
    /\ procs[p].pc = "update"
    /\ verification_data' =
          UpdateDataHash(verification_data, procs[p].rec[1].id, procs[p].hash)
    /\ procs' = [procs EXCEPT ![p].pc = "loop", ![p].rec = Nil]
    /\ UNCHANGED <<verifications, verification_data_cache, gateway, schema, upserts>>

\* END LOOP: the function returns
MigrateExistingReturn(p) ==
    /\ procs[p].pc = "loop"
    /\ procs[p].todo = {}
    /\ procs' = [procs EXCEPT ![p].pc = "done"]
    /\ UNCHANGED <<tables, gateway, schema, upserts>>

\* the content hash of a payload: the digest of its bytes
ContentHash(payload) == Sha256Hex(TextOf(payload))

\* Upsert(verificationID, dataType, payload), its first statement: the payload
\* is stored in the cache under its hash; the data column takes it as JSONB
UpsertPut(p, verificationID, dataType, payload) ==
    /\ procs[p].pc = "idle"
    /\ UniqueVerificationIDDataType \in schema
    /\ LET hash == ContentHash(payload)
           data == JsonbIn(payload)
           out == InsertCache(verification_data_cache, hash, data)
       IN IF out.err # NoErr
          THEN /\ procs' = [procs EXCEPT ![p].pc = "failed", ![p].err = out.err]
               /\ UNCHANGED verification_data_cache
          ELSE /\ verification_data_cache' = out.cache
               /\ procs' = [procs EXCEPT
                     ![p].pc = "record", ![p].hash = hash,
                     ![p].args = Ptr([verificationID |-> verificationID,
                                      dataType |-> dataType, payload |-> payload]),
                     ![p].stored = Append(@, [hash |-> hash, data |-> data,
                                              text |-> TextOf(payload)])]
    /\ UNCHANGED <<verifications, verification_data, gateway, schema, upserts>>

\* Upsert, its second statement: the data record of the pair is inserted, or
\* its hash replaced
UpsertRecord(p) ==
    /\ procs[p].pc = "record"
    /\ LET args == procs[p].args[1]
           out == UpsertDataRow(verifications, verification_data, args.verificationID,
                                args.dataType, procs[p].hash, 3 + Len(upserts))
       IN IF out.err # NoErr
          THEN /\ procs' = [procs EXCEPT ![p].pc = "failed", ![p].err = out.err]
               /\ UNCHANGED <<verification_data, upserts>>
          ELSE /\ verification_data' = out.rows
               /\ procs' = [procs EXCEPT ![p].pc = "done"]
               /\ upserts' = Append(upserts, [verificationID |-> args.verificationID,
                                              dataType |-> args.dataType,
                                              hash |-> procs[p].hash, proc |-> p])
    /\ UNCHANGED <<verifications, verification_data_cache, gateway, schema>>

\* the rows of verification_data after a DELETE on a table no foreign key ties
\* to verifications
DeleteCascade_NoForeignKey(dataRows, id) == dataRows

\* verification_id REFERENCES verifications(id) ON DELETE CASCADE: the rows of
\* verification_data that are left when the verification is deleted
DeleteCascade(dataRows, id) == { d \in dataRows : d.verification_id # id }

\* DELETE FROM verifications WHERE id = id, by a session of the database (the
\* gateway has no operation that deletes)
DeleteVerification(id) ==
    /\ \E v \in verifications : v.id = id
    /\ verifications' = { v \in verifications : v.id # id }
    /\ verification_data' = DeleteCascade(verification_data, id)
    /\ UNCHANGED <<verification_data_cache, gateway, schema, procs, upserts>>

NextStore ==
    \/ \E p \in Procs : MigrateExistingSelect(p)
    \/ \E p \in Procs : MigrateExistingInsert(p)
    \/ \E p \in Procs : MigrateExistingUpdate(p)
    \/ \E p \in Procs : MigrateExistingReturn(p)
    \/ \E p \in Procs, id \in UpsertIDSamples, type \in UpsertTypeSamples,
          payload \in UpsertDataSamples : UpsertPut(p, id, type, payload)
    \/ \E p \in Procs : UpsertRecord(p)

SpecStore == InitStore /\ [][NextStore]_vars

\* the writers, and sessions that delete verifications
NextDelete ==
    \/ NextStore
    \/ \E id \in DeleteIDSamples : DeleteVerification(id)

SpecDelete == InitStore /\ [][NextDelete]_vars

---------------------------------------------------------------------------
(* The service over a mock repository, as its tests run it: GetByID returns *)
(* a verification with whatever data list the test gives it.                *)

MockDataTypes == {"BASIC_INFORMATION", "ACTIVITIES", "AFFILIATED_COMPANIES"}
MockPayloads == {PayloadAcme, PayloadTrade}

\* the data lists of at most MaxData records, in the order of their creation
MockDataLists ==
    UNION { [1..n -> MockDataTypes \X MockPayloads] : n \in 0..MaxData }

MockData(list) ==
    [i \in DOMAIN list |->
        [DataType |-> list[i][1], Data |-> list[i][2], CreatedAt |-> FormatRFC3339(i)]]

InitMock ==
    /\ verifications = {} /\ verification_data = {} /\ verification_data_cache = {}
    /\ pc = "serving"
    /\ subscribed = FALSE
    /\ delivered = <<>>
    /\ handled = <<>>
    /\ call = NoCall
    /\ schema = MigratedSchema
    /\ procs = [p \in Procs |-> IdleProc]
    /\ upserts = <<>>
    /\ migration = NoMigration

\* GetVerificationWithData of a service whose repository returns a verification
\* with the given data list
GetVerificationWithDataOfMock(id, list) ==
    /\ call = NoCall
    /\ LET verification == [ZeroVerification EXCEPT !.ID = id, !.Data = MockData(list)]
       IN call' = [op |-> "GetVerificationWithData", args |-> [id |-> id],
                   store |-> TRUE, lost |-> {},
                   ret |-> Ptr(MapDataByType(
                                  [ZeroVerificationDataResult EXCEPT
                                      !.Verification = Ptr(verification)],
                                  verification.Data)),
                   err |-> NoErr,
                   queries |-> <<[method |-> "GetByID", id |-> id]>>]
    /\ UNCHANGED <<writers, tables, pc, subscribed, delivered, handled>>

NextMock ==
    \/ \E list \in MockDataLists : GetVerificationWithDataOfMock("v1", list)
    \/ Return

SpecMock == InitMock /\ [][NextMock]_vars

---------------------------------------------------------------------------
(* main: runMigrations over the files of migrations/, each file one Exec and *)
(* so one transaction of the database, and the restart of the process.       *)
(* Migration 003 is not part of the sources and is left out.  A writer of    *)
(* the version before the cache inserts rows with a data value and no hash   *)
(* as long as the data column exists.                                        *)

\* the files of the migrations directory: os.ReadDir
MigrationsDir ==
    { [name |-> "001_init.sql", prefix |-> 1, suffix |-> ".sql"],
      [name |-> "002_add_company_id.sql", prefix |-> 2, suffix |-> ".sql"],
      [name |-> "004_add_data_cache.sql", prefix |-> 4, suffix |-> ".sql"],
      [name |-> "005_remove_data_column.sql", prefix |-> 5, suffix |-> ".sql"],
      [name |-> "006_add_unique_constraint.sql", prefix |-> 6, suffix |-> ".sql"] }

\* strings.HasSuffix(file.Name(), ".sql")
SqlFiles(dir) == { f \in dir : f.suffix = ".sql" }

\* sort.Strings(migrationFiles): the names ascending; the names differ in their
\* three-digit prefix, which decides the order
RECURSIVE SortStrings(_)
SortStrings(files) ==
    IF files = {} THEN <<>>
    ELSE LET first == CHOOSE f \in files : \A g \in files : f.prefix <= g.prefix
         IN <<first.name>> \o SortStrings(files \ {first})

MigrationFiles == SortStrings(SqlFiles(MigrationsDir))

\* the database as one Exec finds it
Db == [schema |-> schema, v |-> verifications, d |-> verification_data,
       c |-> verification_data_cache]

\* the databases a starting gateway finds: a new one, two of the version before
\* the cache (the second with two records of one pair), and one that 004 has
\* been run on by an earlier version of the gateway
MigrateSnapshots ==
    { [schema |-> {}, v |-> {}, d |-> {}, c |-> {}],
      [schema |-> {TblVerifications, TblVerificationData, ColData, ColCompanyID},
       v |-> {VerificationRow("v1", Inn10, VerificationStatusCompleted, 1)},
       d |-> {LegacyDataRow("d1", "v1", "BASIC_INFORMATION", JsonAcme, 1),
              LegacyDataRow("d2", "v1", "ACTIVITIES", JsonAcme, 2)},
       c |-> {}],
      [schema |-> {TblVerifications, TblVerificationData, ColData},
       v |-> {VerificationRow("v1", Inn10, VerificationStatusCompleted, 1)},
       d |-> {LegacyDataRow("d1", "v1", "BASIC_INFORMATION", JsonAcme, 1),
              LegacyDataRow("d2", "v1", "BASIC_INFORMATION", JsonTrade, 2)},
       c |-> {}],
      [schema |-> {TblVerifications, TblVerificationData, ColData, ColCompanyID,
                   TblCache, ColDataHash, FnMigrateExisting},
       v |-> {VerificationRow("v1", Inn10, VerificationStatusCompleted, 1),
              VerificationRow("v2", Inn12, VerificationStatusCompleted, 2)},
       d |-> {[LegacyDataRow("d1", "v1", "BASIC_INFORMATION", JsonAcme, 1)
                  EXCEPT !.data_hash = Ptr(Sha256Hex(PayloadAcme))],
              LegacyDataRow("d2", "v2", "BASIC_INFORMATION", JsonBoth, 2)},
       c |-> {CacheRow("c1", JsonAcme)}] }

\* runMigrations at its first file
StartMigrations(start, db) ==
    [start |-> start, todo |-> MigrationFiles, log |-> <<>>, step |-> "exec",
     saved |-> Nil, atStart |-> Ptr(db)]

InitMigrate ==
    /\ \E s \in MigrateSnapshots :
          /\ schema = s.schema
          /\ verifications = s.v
          /\ verification_data = s.d
          /\ verification_data_cache = s.c
          /\ migration = StartMigrations(1, s)
    /\ pc = "migrate"
    /\ subscribed = FALSE
    /\ delivered = <<>>
    /\ handled = <<>>
    /\ call = NoCall
    /\ procs = [p \in Procs |-> IdleProc]
    /\ upserts = <<>>

UndefinedColumn == "column \"data\" does not exist"
CannotRemoveDataColumn == "Cannot remove data column: records still without data_hash"

\* the loop of runMigrations that goes on to the next file after a failed Exec
AfterExec_GoOn(m, filename, err) ==
    [m |-> [m EXCEPT !.todo = Tail(@), !.step = "exec", !.saved = Nil,
                     !.log = Append(@, [file |-> filename, err |-> err])],
     pc |-> "migrate"]

\* the loop of runMigrations after db.Exec of a file: a failure is wrapped and
\* returned, and main ends the process with log.Fatal; otherwise the next file
AfterExec(m, filename, err) ==
    IF err # NoErr
    THEN [m |-> [m EXCEPT !.step = "exec", !.saved = Nil,
                          !.log = Append(@, [file |-> filename,
                                             err |-> Wrap("failed to execute migration "
                                                          \o filename, err)])],
          pc |-> "fatal"]
    ELSE [m |-> [m EXCEPT !.todo = Tail(@), !.step = "exec", !.saved = Nil,
                          !.log = Append(@, [file |-> filename, err |-> NoErr])],
          pc |-> "migrate"]

\* 001_init.sql: CREATE TABLE IF NOT EXISTS verifications, verification_data
InitSql(db) ==
    [db |-> [db EXCEPT !.schema = @ \cup {TblVerifications} \cup
                          (IF TblVerificationData \in @ THEN {}
                           ELSE {TblVerificationData, ColData})],
     err |-> NoErr]

\* 002_add_company_id.sql: ADD COLUMN IF NOT EXISTS company_id
AddCompanyIDSql(db) ==
    [db |-> [db EXCEPT !.schema = @ \cup {ColCompanyID}], err |-> NoErr]

\* migrate_existing_verification_data(): every row with a data value and no hash
\* gets its hash, and the cache the data under that hash
RECURSIVE MigrateExistingVerificationData(_, _)
MigrateExistingVerificationData(dataRows, cache) ==
    LET todo == SelectWithoutHash(dataRows)
    IN IF todo = {} THEN [d |-> dataRows, c |-> cache]
       ELSE LET rec == CHOOSE r \in todo : TRUE
                computed_hash == ComputedHash(rec.data)
            IN MigrateExistingVerificationData(
                   UpdateDataHash(dataRows, rec.id, computed_hash),
                   InsertCache(cache, computed_hash, rec.data).cache)

\* 004_add_data_cache.sql: the cache table, the data_hash column and the
\* function are created unless they exist, then SELECT
\* migrate_existing_verification_data() runs the function, whose SELECT names
\* the data column
AddDataCacheSql(db) ==
    LET added == db.schema \cup {TblCache, ColDataHash, FnMigrateExisting}
        out == MigrateExistingVerificationData(db.d, db.c)
    IN IF ColData \notin added
       THEN [db |-> db, err |-> <<UndefinedColumn>>]
       ELSE [db |-> [db EXCEPT !.schema = added, !.d = out.d, !.c = out.c], err |-> NoErr]

\* the rows of the table that share their pair with another row
DuplicatePairs(dataRows) ==
    { d \in dataRows : \E e \in dataRows :
         e.id # d.id /\ e.verification_id = d.verification_id /\ e.data_type = d.data_type }

\* the migration of the unique constraint: ADD CONSTRAINT ... UNIQUE
\* (verification_id, data_type) unless pg_constraint has it
AddUniqueConstraintSql(db) ==
    IF UniqueVerificationIDDataType \in db.schema THEN [db |-> db, err |-> NoErr]
    ELSE IF DuplicatePairs(db.d) # {} THEN [db |-> db, err |-> <<UniqueViolation>>]
    ELSE [db |-> [db EXCEPT !.schema = @ \cup {UniqueVerificationIDDataType}],
          err |-> NoErr]

\* db.Exec of a file that is one step of the database
ExecFile(filename, out) ==
    /\ pc = "migrate"
    /\ migration.todo # <<>>
    /\ Head(migration.todo) = filename
    /\ schema' = out.db.schema
    /\ verifications' = out.db.v
    /\ verification_data' = out.db.d
    /\ verification_data_cache' = out.db.c
    /\ LET after == AfterExec(migration, filename, out.err)
       IN migration' = after.m /\ pc' = after.pc
    /\ UNCHANGED <<subscribed, delivered, handled, call, procs, upserts>>

ExecInit(dbOk) ==
    ExecFile("001_init.sql",
             IF dbOk THEN InitSql(Db) ELSE [db |-> Db, err |-> <<DbError>>])

ExecAddCompanyID(dbOk) ==
    ExecFile("002_add_company_id.sql",
             IF dbOk THEN AddCompanyIDSql(Db) ELSE [db |-> Db, err |-> <<DbError>>])

ExecAddDataCache(dbOk) ==
    ExecFile("004_add_data_cache.sql",
             IF dbOk THEN AddDataCacheSql(Db) ELSE [db |-> Db, err |-> <<DbError>>])

ExecAddUniqueConstraint(dbOk) ==
    ExecFile("006_add_unique_constraint.sql",
             IF dbOk THEN AddUniqueConstraintSql(Db) ELSE [db |-> Db, err |-> <<DbError>>])

\* the rows as they were before the transaction of the running file touched
\* them: the saved rows, and the rows inserted since as they were inserted
RolledBack(dataRows, saved) ==
    { IF \E s \in saved : s.id = d.id
      THEN CHOOSE s \in saved : s.id = d.id
      ELSE [d EXCEPT !.data_hash = Nil] : d \in dataRows }

\* the recheck that lets the DO block end whatever it counts
RecheckRaises_Never(dataRows) == FALSE

\* IF records_without_hash > 0 THEN RAISE EXCEPTION, after the recount
RecheckRaises(dataRows) == SelectWithoutHash(dataRows) # {}

\* migration 005, the DO block up to the function: the rows without a hash are
\* counted, and when there are any the function is run
RemoveDataColumnCheck(dbOk) ==
    /\ pc = "migrate"
    /\ migration.todo # <<>>
    /\ Head(migration.todo) = "005_remove_data_column.sql"
    /\ migration.step = "exec"
    /\ IF ~dbOk \/ ColData \notin schema
       THEN /\ LET after == AfterExec(migration, Head(migration.todo),
                                      IF dbOk THEN <<UndefinedColumn>> ELSE <<DbError>>)
               IN migration' = after.m /\ pc' = after.pc
            /\ UNCHANGED <<verification_data, verification_data_cache>>
       ELSE IF SelectWithoutHash(verification_data) = {}
       THEN /\ migration' = [migration EXCEPT !.step = "drop", !.saved = Ptr(Db)]
            /\ UNCHANGED <<pc, verification_data, verification_data_cache>>
       ELSE /\ LET out == MigrateExistingVerificationData(verification_data,
                                                           verification_data_cache)
               IN /\ verification_data' = out.d
                  /\ verification_data_cache' = out.c
            /\ migration' = [migration EXCEPT !.step = "recheck", !.saved = Ptr(Db)]
            /\ UNCHANGED pc
    /\ UNCHANGED <<verifications, schema, subscribed, delivered, handled, call, procs,
                   upserts>>

\* migration 005, the DO block from the recount on: an exception ends the Exec
\* and the database undoes what the file has done
RemoveDataColumnRecheck ==
    /\ pc = "migrate"
    /\ migration.step = "recheck"
    /\ IF RecheckRaises(verification_data)
       THEN /\ verification_data' = RolledBack(verification_data, migration.saved[1].d)
            /\ verification_data_cache' = migration.saved[1].c
            /\ LET after == AfterExec(migration, Head(migration.todo),
                                      <<CannotRemoveDataColumn>>)
               IN migration' = after.m /\ pc' = after.pc
       ELSE /\ migration' = [migration EXCEPT !.step = "drop"]
            /\ UNCHANGED <<pc, verification_data, verification_data_cache>>
    /\ UNCHANGED <<verifications, schema, subscribed, delivered, handled, call, procs,
                   upserts>>

\* migration 005, ALTER TABLE verification_data DROP COLUMN IF EXISTS data
RemoveDataColumnDrop ==
    /\ pc = "migrate"
    /\ migration.step = "drop"
    /\ schema' = schema \ {ColData}
    /\ verification_data' = { [d EXCEPT !.data = Nil] : d \in verification_data }
    /\ LET after == AfterExec(migration, Head(migration.todo), NoErr)
       IN migration' = after.m /\ pc' = after.pc
    /\ UNCHANGED <<verifications, verification_data_cache, subscribed, delivered, handled,
                   call, procs, upserts>>

\* a writer of the version before the cache: INSERT INTO verification_data
\* (verification_id, data_type, data)
LegacyInsert(verificationID, dataType, data) ==
    /\ TblVerificationData \in schema /\ ColData \in schema
    /\ Cardinality(verification_data) < MaxRows
    /\ \E v \in verifications : v.id = verificationID
    /\ UniqueVerificationIDDataType \in schema
          => ConflictingDataRows(verification_data, verificationID, dataType) = {}
    /\ verification_data' = verification_data \cup
          {LegacyDataRow(NewID("d", verification_data), verificationID, dataType, data, 3)}
    /\ UNCHANGED <<verifications, verification_data_cache, schema, pc, subscribed,
                   delivered, handled, call, procs, upserts, migration>>

\* runMigrations returns nil; main makes the NATS client, or ends with log.Fatal
MigrationsDone(natsOk) ==
    /\ pc = "migrate"
    /\ migration.todo = <<>>
    /\ pc' = IF natsOk THEN "subscribe" ELSE "fatal"
    /\ UNCHANGED <<tables, schema, subscribed, delivered, handled, call, procs, upserts,
                   migration>>

\* the process is started again on the database it has left
Restart ==
    /\ pc \in {"serving", "fatal"}
    /\ migration.start < MaxStarts
    /\ pc' = "migrate"
    /\ subscribed' = FALSE
    /\ migration' = StartMigrations(migration.start + 1, Db)
    /\ UNCHANGED <<tables, schema, delivered, handled, call, procs, upserts>>

NextMigrate ==
    \/ \E dbOk \in BOOLEAN : ExecInit(dbOk)
    \/ \E dbOk \in BOOLEAN : ExecAddCompanyID(dbOk)
    \/ \E dbOk \in BOOLEAN : ExecAddDataCache(dbOk)
    \/ \E dbOk \in BOOLEAN : RemoveDataColumnCheck(dbOk)
    \/ RemoveDataColumnRecheck
    \/ RemoveDataColumnDrop
    \/ \E dbOk \in BOOLEAN : ExecAddUniqueConstraint(dbOk)
    \/ \E natsOk \in BOOLEAN : MigrationsDone(natsOk)
    \/ \E subscribeOk \in BOOLEAN : Subscribe(subscribeOk)
    \/ Restart
    \/ \E id \in {"v1"}, data \in {JsonTrade} :
          LegacyInsert(id, "BASIC_INFORMATION", data)

SpecMigrate == InitMigrate /\ [][NextMigrate]_vars

---------------------------------------------------------------------------
(* Properties *)

IsCreate == call.op = "CreateVerification"
IsGetAll == call.op = "GetAllVerifications"

Last(s) == s[Len(s)]

\* a step in which NATS delivered a message
Delivery == delivered' # delivered

\* the message the callback decoded from the payload delivered in this step
DeliveredNow == UnmarshalCompletedMessage(Last(delivered'))

KnownID(id) == \E r \in verifications : r.id = id

InvalidCreateArgs(args) ==
    \/ args.inn = <<>>
    \/ Len(args.inn) # 10 /\ Len(args.inn) # 12
    \/ args.requestedTypes = <<>>

\* C1: CreateVerification fails, returns no verification and hands nothing to
\* conn.Publish when inn is empty, its length is neither 10 nor 12, or no type
\* is requested; with any other input it reaches the publish step, calling
\* conn.Publish once.
C1_CreateValidation ==
    IsCreate =>
        IF InvalidCreateArgs(call.args)
        THEN call.err # NoErr /\ call.ret = Nil /\ call.published = <<>>
        ELSE Len(call.published) = 1

C1_Witness ==
    /\ IsCreate
    /\ Len(call.args.inn) = 11
    /\ call.args.requestedTypes # <<>>
    /\ call.err = <<"inn must be 10 or 12 digits, got 11">>

\* C2: a verification returned by a successful CreateVerification has status
\* IN_PROCESS and the inn, author and requested data types of the call.
C2_CreatedVerification ==
    IsCreate /\ call.err = NoErr =>
        /\ call.ret # Nil
        /\ call.ret[1].Status = VerificationStatusInProcess
        /\ call.ret[1].Inn = call.args.inn
        /\ call.ret[1].AuthorEmail = call.args.authorEmail
        /\ call.ret[1].RequestedDataTypes = call.args.requestedTypes

C2_Witness ==
    /\ IsCreate
    /\ call.err = NoErr
    /\ call.ret # Nil
    /\ call.args.inn = Inn12
    /\ Len(call.args.requestedTypes) = 2

\* the call handed a message to conn.Publish and conn.Publish failed
PublishFailed == IsCreate /\ call.published # <<>> /\ ~call.published[1].ok

\* C3: when conn.Publish fails, CreateVerification returns an error and no
\* verification, and the store holds no verification with the generated id:
\* neither the lookup by id nor the full list finds one.
C3_PublishFailureLeavesNoRecord ==
    PublishFailed =>
        /\ call.err # NoErr
        /\ call.ret = Nil
        /\ call.uuid # Nil
        /\ SelectVerificationByID(verifications, call.uuid[1]) = Nil
        /\ \A r \in RepoGetAll(verifications, Nil, Nil, TRUE) :
              \A i \in DOMAIN r.ret : r.ret[i].ID # call.uuid[1]

C3_Witness ==
    /\ PublishFailed
    /\ call.err = <<"failed to publish verification request",
                    "failed to publish verification request", ConnError>>
    /\ verifications # {}

\* C4: a successful CreateVerification calls conn.Publish exactly once, on
\* subject "verification.create", with verification_id, inn, requested_types
\* and author_email equal to the ID, Inn, RequestedDataTypes and AuthorEmail
\* of the verification it returns.
C4_PublishedMessage ==
    IsCreate /\ call.err = NoErr =>
        /\ call.ret # Nil
        /\ call.published =
              << [subject |-> "verification.create",
                  data |-> [verification_id |-> call.ret[1].ID,
                            inn |-> call.ret[1].Inn,
                            requested_types |-> call.ret[1].RequestedDataTypes,
                            author_email |-> call.ret[1].AuthorEmail],
                  ok |-> TRUE] >>

C4_Witness ==
    /\ IsCreate
    /\ call.err = NoErr
    /\ Len(call.published) = 1
    /\ call.published[1].data.verification_id \in UuidSamples
    /\ call.published[1].data.inn = Inn10

\* C5: after the callback handled a decodable notification with status
\* COMPLETED for the id of a stored verification, that verification's stored
\* status is COMPLETED.
C5_CompletedIsStored ==
    delivered # <<>> =>
        LET dec == UnmarshalCompletedMessage(Last(delivered))
        IN dec.ok /\ dec.msg.Status = VerificationStatusCompleted =>
             \A r \in verifications :
                r.id = dec.msg.VerificationID => r.status = VerificationStatusCompleted

\* C6: the delivery of a decodable notification whose id matches no stored
\* verification changes no row of verifications, verification_data or
\* verification_data_cache, and no caller sees an error: the pending call
\* result and the subscription are as before.
C6_UnknownIDChangesNothing ==
    [][ Delivery /\ DeliveredNow.ok /\ ~KnownID(DeliveredNow.msg.VerificationID)
          => UNCHANGED <<tables, call, subscribed, pc>> ]_vars

C6_Witness ==
    /\ delivered # <<>>
    /\ UnmarshalCompletedMessage(Last(delivered)).ok
    /\ UnmarshalCompletedMessage(Last(delivered)).msg.VerificationID = "v9"
    /\ verifications # {}
    /\ handled # <<>> /\ Last(handled).ID = "v9"

\* C7: the delivery of a payload that does not decode calls the handler for
\* nothing and changes no state, and the subscription stays active.
C7_UndecodableIsDropped ==
    [][ Delivery /\ ~DeliveredNow.ok
          => /\ handled' = handled
             /\ UNCHANGED <<tables, call, pc>>
             /\ subscribed' ]_vars

C7_Witness ==
    /\ Len(delivered) = 2
    /\ ~UnmarshalCompletedMessage(delivered[1]).ok
    /\ UnmarshalCompletedMessage(delivered[2]).ok
    /\ Len(handled) = 1
    /\ subscribed

Decodable(raw) == UnmarshalCompletedMessage(raw).ok

\* C8: the handler is called exactly once for every decodable message, in the
\* order of delivery, with the verification_id and status of the message as
\* the ID and Status of the verification.
C8_HandlerCalledOncePerMessage ==
    LET decodable == SelectSeq(delivered, Decodable)
    IN /\ Len(handled) = Len(decodable)
       /\ \A i \in DOMAIN decodable :
             LET msg == UnmarshalCompletedMessage(decodable[i]).msg
             IN handled[i].ID = msg.VerificationID /\ handled[i].Status = msg.Status

C8_Witness ==
    /\ Len(delivered) = 2
    /\ Decodable(delivered[1]) /\ Decodable(delivered[2])
    /\ delivered[1] # delivered[2]
    /\ Len(handled) = 2
    /\ handled[2].Status = VerificationStatusCompleted

\* C9: no step moves a stored verification whose status is COMPLETED, ERROR
\* or COMPANY_NOT_FOUND to IN_PROCESS or PROCESSING.
C9_TerminalStatusStays ==
    [][ \A r \in verifications : r.status \in TerminalStatuses =>
          \A q \in verifications' : q.id = r.id =>
             q.status \notin {VerificationStatusInProcess,
                              VerificationStatusProcessing} ]_vars

C9_Witness ==
    /\ \E r \in verifications : r.id = "v1" /\ r.status \in TerminalStatuses
    /\ handled # <<>>
    /\ Last(handled).ID = "v1"
    /\ Last(handled).Status = VerificationStatusInProcess

NegativePtr(p) == p # Nil /\ p[1] < 0

\* C10: GetAllVerifications returns an error without querying the repository
\* when limit or offset is present and negative; otherwise it queries the
\* repository once with limit and offset and returns what GetAll returned.
C10_GetAllValidation ==
    IsGetAll =>
        IF NegativePtr(call.args.limit) \/ NegativePtr(call.args.offset)
        THEN call.err # NoErr /\ call.queries = <<>> /\ call.ret = <<>>
        ELSE /\ call.queries = << [method |-> "GetAll", limit |-> call.args.limit,
                                    offset |-> call.args.offset] >>
             /\ \E dbOk \in BOOLEAN :
                   [ret |-> call.ret, err |-> call.err]
                      \in RepoGetAll(verifications, call.args.limit,
                                     call.args.offset, dbOk)

C10_Witness ==
    /\ IsGetAll
    /\ call.args.limit = Ptr(2)
    /\ call.args.offset = Ptr(-1)
    /\ call.err = <<"offset must be non-negative, got -1">>
    /\ call.queries = <<>>

\* the orders of all stored verifications by creation time, latest first
DescendingOrders ==
    { s \in [1..Cardinality(verifications) -> verifications] :
        /\ \A r \in verifications : \E i \in DOMAIN s : s[i] = r
        /\ \A i \in DOMAIN s : \A j \in DOMAIN s :
              i < j => s[i].created_at >= s[j].created_at }

IsGetVerification == call.op = "GetVerification"
IsGetWithData == call.op = "GetVerificationWithData"
IsGetDataByHash == call.op = "GetDataByHash"

FieldOfType(result, type) ==
    CASE type = "BASIC_INFORMATION" -> result.BasicInformation
      [] type = "ACTIVITIES" -> result.Activities
      [] type = "ADDRESSES_BY_CREDINFORM" -> result.AddressesByCredinform
      [] type = "ADDRESSES_BY_UNIFIED_STATE_REGISTER" -> result.AddressesByUnifiedStateRegister
      [] type = "AFFILIATED_COMPANIES" -> result.AffiliatedCompanies
      [] type = "ARBITRAGE_STATISTICS" -> result.ArbitrageStatistics

\* C13: a successful GetVerificationWithData returns the verification and, for
\* each of the six data types, a field that holds the payload of the
\* verification's data record of that type when there is one and is unset when
\* there is none.
C13_WithDataFields ==
    IsGetWithData /\ call.err = NoErr =>
        /\ call.ret # Nil
        /\ call.ret[1].Verification # Nil
        /\ call.ret[1].Verification[1].ID = call.args.id
        /\ LET data == call.ret[1].Verification[1].Data
           IN \A type \in VerificationDataTypes :
                 LET recs == { i \in DOMAIN data : data[i].DataType = type }
                 IN IF recs = {}
                    THEN FieldOfType(call.ret[1], type) = Nil
                    ELSE \E i \in recs : FieldOfType(call.ret[1], type) = Ptr(data[i].Data)

C13_Witness ==
    /\ IsGetWithData /\ call.err = NoErr /\ call.args.id = "v1"
    /\ call.ret[1].BasicInformation = Ptr(PayloadAcme)
    /\ call.ret[1].Activities = Ptr(PayloadTrade)
    /\ call.ret[1].AffiliatedCompanies = Nil

\* C14: GetDataByHash returns the payload stored under the hash when the cache
\* has an entry for it and the lookup succeeds; otherwise it returns the empty
\* payload and an error that begins with "data not found in cache for hash
\* <hash>"; it leaves the cache as it was.
C14_GetDataByHash ==
    [][ call'.op = "GetDataByHash" /\ call.op # "GetDataByHash" =>
          /\ verification_data_cache' = verification_data_cache
          /\ IF call'.store /\ \E c \in verification_data_cache :
                                   c.data_hash = call'.args.hash
             THEN /\ call'.err = NoErr
                  /\ \E c \in verification_data_cache :
                        c.data_hash = call'.args.hash /\ JsonbText(c.data) = call'.ret
             ELSE /\ call'.ret = ""
                  /\ call'.err # NoErr
                  /\ call'.err[1] = "data not found in cache for hash " \o call'.args.hash
      ]_vars

C14_Witness ==
    /\ IsGetDataByHash /\ call.store
    /\ call.args.hash = Sha256Hex(PayloadTrade)
    /\ \E c \in verification_data_cache : c.data = JsonAcme
    /\ call.ret = "" /\ call.err # NoErr

---------------------------------------------------------------------------
(* The cache and the data records under the sessions that write *)

\* the cache entries of a hash
EntriesOf(cache, hash) == { c \in cache : c.data_hash = hash }

\* the stores of payloads that have been executed, over all sessions
Stores == UNION { { procs[p].stored[i] : i \in DOMAIN procs[p].stored } : p \in Procs }

\* the data records of a pair
RecordsOf(dataRows, verificationID, dataType) ==
    { d \in dataRows : d.verification_id = verificationID /\ d.data_type = dataType }

\* C15: storing a payload that has been stored before yields the hash the
\* earlier store yielded and does not change the cache; after any store the
\* cache holds exactly one entry for the hash.
C15_StoreTwice ==
    [][ \A p \in Procs :
          Len(procs'[p].stored) = Len(procs[p].stored) + 1 =>
              LET s == Last(procs'[p].stored)
              IN /\ Cardinality(EntriesOf(verification_data_cache', s.hash)) = 1
                 /\ \A t \in Stores :
                       t.text = s.text =>
                          /\ t.hash = s.hash
                          /\ verification_data_cache' = verification_data_cache
      ]_vars

C15_Witness ==
    \E p \in Procs :
        /\ Len(procs[p].stored) = 2
        /\ procs[p].stored[1].text = procs[p].stored[2].text
        /\ procs[p].stored[1].hash = procs[p].stored[2].hash
        /\ Cardinality(EntriesOf(verification_data_cache, procs[p].stored[1].hash)) = 1

\* C16: whatever the order in which the statements of the sessions execute, no
\* store of a payload fails, the sessions that stored the same bytes got the
\* same hash, and the cache holds exactly one entry for it.
C16_ConcurrentStore ==
    /\ \A p \in Procs : procs[p].pc = "failed" => procs[p].err = <<ForeignKeyViolation>>
    /\ \A s \in Stores : \A t \in Stores :
          s.text = t.text =>
             /\ s.hash = t.hash
             /\ Cardinality(EntriesOf(verification_data_cache, s.hash)) = 1

C16_Witness ==
    /\ procs[1].pc = "update" /\ procs[2].pc = "update"
    /\ procs[1].rec = procs[2].rec
    /\ procs[1].hash = procs[2].hash
    /\ Cardinality(EntriesOf(verification_data_cache, procs[1].hash)) = 1

\* C17: reading the cache by the hash a store returned yields the payload that
\* was stored, byte for byte.
C17_RoundTrip ==
    \A s \in Stores :
        LET got == GetDataByHash(verification_data_cache, s.hash, TRUE)
        IN got.err = NoErr /\ got.ret = s.text

C19_LastUpsertWins ==
    \A i \in DOMAIN upserts :
        (\A j \in DOMAIN upserts :
            j > i => ~(/\ upserts[j].verificationID = upserts[i].verificationID
                       /\ upserts[j].dataType = upserts[i].dataType))
        => LET recs == RecordsOf(verification_data, upserts[i].verificationID,
                                 upserts[i].dataType)
           IN /\ Cardinality(recs) = 1
              /\ \A d \in recs : d.data_hash = Ptr(upserts[i].hash)

C19_Witness ==
    /\ Len(upserts) = 2
    /\ procs[1].pc = "done" /\ procs[2].pc = "done"
    /\ upserts[1].verificationID = upserts[2].verificationID
    /\ upserts[1].dataType = upserts[2].dataType
    /\ upserts[1].hash # upserts[2].hash
    /\ upserts[1].proc = 2
    /\ \A d \in RecordsOf(verification_data, upserts[2].verificationID, upserts[2].dataType) :
          d.data_hash = Ptr(upserts[2].hash)

\* C20: the hash of every data record that has one is the hash of an entry of
\* the cache.
C20_HashResolves ==
    \A d \in verification_data :
        d.data_hash # Nil =>
            \E c \in verification_data_cache : c.data_hash = d.data_hash[1]

C20_Witness ==
    \E p \in Procs :
        /\ procs[p].pc = "loop" /\ Len(procs[p].stored) = 1
        /\ \E d \in verification_data :
              /\ d.data # Nil
              /\ d.data_hash = Ptr(procs[p].stored[1].hash)
              /\ \E c \in verification_data_cache : c.data_hash = procs[p].stored[1].hash
        /\ \E d \in verification_data : d.data_hash = Nil

---------------------------------------------------------------------------
(* The read path, the checks of CreateVerification and the notification path *)

Digits == {"0", "1", "2", "3", "4", "5", "6", "7", "8", "9"}

\* C23: the inn of every verification CreateVerification returns has 10 or 12
\* characters, each of them a digit.
C23_InnIsNumeric ==
    IsCreate /\ call.err = NoErr =>
        /\ Len(call.ret[1].Inn) \in {10, 12}
        /\ \A i \in DOMAIN call.ret[1].Inn : call.ret[1].Inn[i] \in Digits

\* C26: no step of the gateway changes a table, and the verification a
\* successful CreateVerification returns is not found by GetVerification.
C26_GatewayWritesNothing ==
    /\ [][ /\ verifications' = verifications
           /\ verification_data' = verification_data
           /\ verification_data_cache' = verification_data_cache ]_vars
    /\ [](IsCreate /\ call.err = NoErr =>
            \A out \in ServiceGetVerification(verifications, verification_data,
                                              verification_data_cache,
                                              call.ret[1].ID, TRUE, {}) :
                /\ out.ret = Nil
                /\ out.err = <<"verification not found: " \o call.ret[1].ID>>)

C26_Witness ==
    /\ IsCreate /\ call.err = NoErr
    /\ call.ret[1].ID = "uuid-b"
    /\ Cardinality(verifications) = 3
    /\ Len(handled) = 1

\* C27: CreateVerification reports the first check that fails, in the order
\* empty inn, no requested type, length of inn.
C27_CheckOrder ==
    IsCreate =>
        IF call.args.inn = <<>>
        THEN call.err = <<"inn cannot be empty">>
        ELSE IF call.args.requestedTypes = <<>>
        THEN call.err = <<"at least one data type must be requested">>
        ELSE Len(call.args.inn) \notin {10, 12} =>
                call.err = <<"inn must be 10 or 12 digits, got "
                                \o ToString(Len(call.args.inn))>>

C27_Witness ==
    /\ IsCreate
    /\ call.args.inn = <<"1", "1", "1">>
    /\ call.args.requestedTypes = <<>>
    /\ call.err = <<"at least one data type must be requested">>

\* C28: every message that decodes makes the callback call the handler with
\* the id and the status of the message as they are, whatever the status is
\* and also when the id is empty.
C28_StatusNotValidated ==
    [][ Delivery /\ DeliveredNow.ok =>
          handled' = Append(handled,
                            [ZeroVerification EXCEPT
                                !.ID = DeliveredNow.msg.VerificationID,
                                !.Status = DeliveredNow.msg.Status]) ]_vars

C28_Witness ==
    \E i \in DOMAIN handled :
        /\ handled[i].Status \notin VerificationStatuses
        /\ handled[i].Status = "BOGUS"
        /\ handled[i].ID = ""

\* C29: when the data list has several records of one type, the field of the
\* type holds the payload of the last of them in the list, whatever records of
\* other types the list has.
C29_LastOfTypeWins ==
    IsGetWithData /\ call.err = NoErr =>
        LET data == call.ret[1].Verification[1].Data
        IN \A type \in VerificationDataTypes :
              LET recs == { i \in DOMAIN data : data[i].DataType = type }
              IN recs # {} =>
                    \E i \in recs :
                        /\ \A j \in recs : j <= i
                        /\ FieldOfType(call.ret[1], type) = Ptr(data[i].Data)

C29_Witness ==
    /\ IsGetWithData /\ call.err = NoErr
    /\ LET data == call.ret[1].Verification[1].Data
       IN /\ Len(data) = 3
          /\ data[1].DataType = "BASIC_INFORMATION" /\ data[1].Data = PayloadAcme
          /\ data[2].DataType = "ACTIVITIES" /\ data[2].Data = PayloadAcme
          /\ data[3].DataType = "BASIC_INFORMATION" /\ data[3].Data = PayloadTrade
    /\ call.ret[1].BasicInformation = Ptr(PayloadTrade)
    /\ call.ret[1].Activities = Ptr(PayloadAcme)

\* C24: every data record is of a verification that exists; a step that deletes
\* a verification deletes exactly the data records of that verification and
\* leaves the cache alone; and no step of a writer or of a delete changes or
\* removes a cache entry.
C24_CascadeAndCacheKept ==
    /\ [](\A d \in verification_data : \E v \in verifications : v.id = d.verification_id)
    /\ [][ /\ verification_data_cache \subseteq verification_data_cache'
           /\ verifications' # verifications
                 => /\ verification_data' =
                          { d \in verification_data :
                               \E v \in verifications' : v.id = d.verification_id }
                    /\ verification_data_cache' = verification_data_cache ]_vars

\* a verification that had data records has been deleted: its records are gone,
\* and the cache holds an entry that no record refers to any more
C24_Witness ==
    /\ ~\E v \in verifications : v.id = "v1"
    /\ ~\E d \in verification_data : d.verification_id = "v1"
    /\ \E c \in verification_data_cache :
          ~\E d \in verification_data : d.data_hash = Ptr(c.data_hash)
    /\ \E p \in Procs : procs[p].err = <<ForeignKeyViolation>>

\* the schema once every migration has run
FullSchema ==
    {TblVerifications, TblVerificationData, ColCompanyID, TblCache, ColDataHash,
     FnMigrateExisting, UniqueVerificationIDDataType}

\* the number a migration file's name starts with
PrefixOf(name) == (CHOOSE f \in MigrationsDir : f.name = name).prefix

\* the Exec calls of the running start, and whether the start is over
ExecLog == migration.log
StartOver == pc \in {"fatal", "subscribe", "serving"}
ExecFailedAt(i) == ExecLog[i].err # NoErr

\* C22: a start of the gateway on a database that an earlier start has migrated
\* completely runs every migration file without an error, unless the database
\* connection fails, and leaves the schema and all rows as they were.
C22_SecondRunUnchanged ==
    (/\ migration.start >= 2
     /\ StartOver
     /\ migration.atStart[1].schema = FullSchema
     /\ \A i \in DOMAIN ExecLog : ~ExecFailedAt(i) \/ Last(ExecLog[i].err) # DbError)
    => /\ Len(ExecLog) = Cardinality(SqlFiles(MigrationsDir))
       /\ \A i \in DOMAIN ExecLog : ~ExecFailedAt(i)
       /\ Db = migration.atStart[1]

C30_StopAtFirstFailure ==
    /\ \A i, j \in DOMAIN ExecLog :
          i < j => PrefixOf(ExecLog[i].file) < PrefixOf(ExecLog[j].file)
    /\ \A i \in DOMAIN ExecLog : \A f \in SqlFiles(MigrationsDir) :
          f.prefix < PrefixOf(ExecLog[i].file) => \E j \in 1..(i - 1) : ExecLog[j].file = f.name
    /\ \A i \in DOMAIN ExecLog :
          ExecFailedAt(i) => /\ i = Len(ExecLog)
                             /\ pc = "fatal"
                             /\ ~subscribed
                             /\ Head(ExecLog[i].err) =
                                   "failed to execute migration " \o ExecLog[i].file
    /\ (pc \in {"subscribe", "serving"} \/ subscribed)
          => /\ \A i \in DOMAIN ExecLog : ~ExecFailedAt(i)
             /\ \A f \in SqlFiles(MigrationsDir) :
                   \E i \in DOMAIN ExecLog : ExecLog[i].file = f.name

\* a migration has failed after others have run and before the last file
C30_Witness ==
    /\ pc = "fatal"
    /\ Len(ExecLog) >= 2
    /\ ExecFailedAt(Len(ExecLog))
    /\ Len(ExecLog) < Cardinality(SqlFiles(MigrationsDir))
    /\ ~subscribed

====
